---- MODULE Spec2Model ----
(***************************************************************************)
(* HBnB REST API (part3): users, places, reviews and amenities stored in   *)
(* SQLAlchemy repositories, reached through the facade by flask-restx      *)
(* handlers guarded by JWT tokens.  Each handler is one atomic action      *)
(* (spec section 5: a request runs to completion before the next one).     *)
(***************************************************************************)
EXTENDS Integers, FiniteSets, Sequences, TLC

(* ---------------------------------------------------------------------- *)
(* Bounds of the model.                                                    *)
(* ---------------------------------------------------------------------- *)
MaxUsers == 2
MaxPlaces == 1
MaxReviews == 2
MaxAmenities == 2
MaxTokens == 2

UserIds == 1..MaxUsers
PlaceIds == 1..MaxPlaces
ReviewIds == 1..MaxReviews
AmenityIds == 1..MaxAmenities

Emails == {"e1", "e2", "e3"}
Passwords == {"pw1", "pw2"}

None == 0

VARIABLES users, places, reviews, amenities,
          nextUser, nextPlace, nextReview, nextAmenity,
          tokens, request, status, message,
          storage, session, now, returned, User_emails

store == <<users, places, reviews, amenities>>
counters == <<nextUser, nextPlace, nextReview, nextAmenity>>

\* The repository classes driven directly, outside any HTTP request:
\* storage is InMemoryRepository._storage, session the rows a
\* SQLAlchemyRepository holds, now the clock behind datetime.now(), returned
\* what the last call returned or raised, User_emails the class attribute
\* User.emails of the in-memory model.
units == <<storage, session, now, returned, User_emails>>

http == <<users, places, reviews, amenities,
          nextUser, nextPlace, nextReview, nextAmenity,
          tokens, request, status, message>>

vars == <<users, places, reviews, amenities,
          nextUser, nextPlace, nextReview, nextAmenity,
          tokens, request, status, message,
          storage, session, now, returned, User_emails>>

(* ---------------------------------------------------------------------- *)
(* Callers: a request carries no token, or a token issued by Login.post.   *)
(* ---------------------------------------------------------------------- *)
Anonymous == [auth |-> FALSE, sub |-> None, is_admin |-> FALSE]

\* looks the admin flag up in the users table on every request
Bearer_from_store(t) ==
  [auth |-> TRUE, sub |-> t.sub,
   is_admin |-> t.sub \in DOMAIN users /\ users[t.sub].is_admin]

\* get_jwt_identity() and get_jwt(): the subject and the claims as issued
Bearer(t) == [auth |-> TRUE, sub |-> t.sub, is_admin |-> t.is_admin]

Callers == {Anonymous} \cup {Bearer(t) : t \in tokens}

jwt_required(caller) == caller.auth

(* ---------------------------------------------------------------------- *)
(* Request payloads and their flask-restx models.                          *)
(* ---------------------------------------------------------------------- *)
user_model == {"first_name", "last_name", "email", "password"}

review_model == {"text", "rating", "user_id", "place_id"}

amenity_model == {"name"}

place_model == {"title"}

login_model == {"email", "password"}

\* @api.expect(model, validate=True): every required field is present.
\* flask-restx validates in Resource.dispatch_request, before it calls the
\* method and so before the method's jwt_required wrapper runs.
validate_payload(model, body) == model \subseteq DOMAIN body

\* Payloads a client may send: complete ones, and ones that miss a field.
UserPayloads(first_names, emails, passwords, admins) ==
  [first_name : first_names, last_name : {"Doe"}, email : emails,
   password : passwords]
  \cup [first_name : first_names, last_name : {"Doe"}, email : emails,
        password : passwords, is_admin : admins]
  \cup [first_name : first_names]
  \cup [email : emails]

ReviewPayloads(texts, ratings) ==
  [text : texts, rating : ratings, user_id : UserIds, place_id : PlaceIds]
  \cup [text : texts, rating : ratings]

AmenityPayloads(names) == [name : names] \cup {[title |-> "flat"]}

PlacePayloads(titles) == [title : titles] \cup {[name |-> "wifi"]}

LoginPayloads == [email : Emails, password : Passwords] \cup [email : Emails]

(* ---------------------------------------------------------------------- *)
(* Models.                                                                 *)
(* ---------------------------------------------------------------------- *)
\* bcrypt.generate_password_hash / check_password_hash
set_password(password) == <<"bcrypt", password>>

check_password(user, password) == user.password_hash = set_password(password)

\* accepts any password once the user is found
verify_password_unchecked(user, password) == TRUE

verify_password(user, password) == check_password(user, password)

\* User.__init__: is_admin defaults to False, the password is stored hashed
User(data) ==
  [first_name |-> data.first_name,
   last_name |-> data.last_name,
   email |-> data.email,
   is_admin |-> IF "is_admin" \in DOMAIN data THEN data.is_admin ELSE FALSE,
   password_hash |-> set_password(data.password)]

validate_text(value) == value # ""

validate_rating(value) == 1 <= value /\ value <= 5

\* Review.__init__ raises unless text and rating validate
Review_valid(data) == validate_text(data.text) /\ validate_rating(data.rating)

Review(data) ==
  [text |-> data.text, rating |-> data.rating,
   place_id |-> data.place_id, user_id |-> data.user_id]

Amenity(data) == [name |-> data.name]

Place(data, owner_id) == [title |-> data.title, owner_id |-> owner_id]

\* BaseModel.save: updated_at = datetime.now().  The rows of the HTTP-level
\* tables are kept without their timestamps.
BaseModel_save(obj) ==
  IF "updated_at" \in DOMAIN obj THEN [obj EXCEPT !.updated_at = now] ELSE obj

\* the timestamp is left as it was
BaseModel_update_without_save(obj, data) ==
  [k \in DOMAIN obj |-> IF k \in DOMAIN data THEN data[k] ELSE obj[k]]

\* BaseModel.update: setattr for every key the object already has, then save
BaseModel_update(obj, data) ==
  BaseModel_save(
    [k \in DOMAIN obj |-> IF k \in DOMAIN data THEN data[k] ELSE obj[k]])

(* ---------------------------------------------------------------------- *)
(* Persistence: one table per entity, keyed by id.                         *)
(* ---------------------------------------------------------------------- *)
\* db.Column(..., unique=True): no two rows share the value of the field
unique(table, field) ==
  \A a, b \in DOMAIN table : a # b => table[a][field] # table[b][field]

\* commits whatever the table holds
commit_unchecked(table, uniques) == TRUE

\* session.commit(): a violated UNIQUE constraint raises IntegrityError
commit_ok(table, uniques) == \A f \in uniques : unique(table, f)

SQLAlchemyRepository_add(table, id, obj) ==
  [k \in DOMAIN table \cup {id} |-> IF k = id THEN obj ELSE table[k]]

SQLAlchemyRepository_get(table, id) == id \in DOMAIN table

SQLAlchemyRepository_get_all(table) == {table[k] : k \in DOMAIN table}

\* inserts a row when there is none to update
SQLAlchemyRepository_update_or_insert(table, id, data) ==
  IF id \in DOMAIN table
  THEN [table EXCEPT ![id] = BaseModel_update(@, data)]
  ELSE [k \in DOMAIN table \cup {id} |->
          IF k = id
          THEN BaseModel_update(
                 [id |-> id, email |-> "", first_name |-> "",
                  updated_at |-> now], data)
          ELSE table[k]]

\* obj.update(data) and commit: an UPDATE of the row, primary key included
\* when the row carries it and data names it
SQLAlchemyRepository_update(table, id, data) ==
  IF SQLAlchemyRepository_get(table, id)
  THEN LET row == BaseModel_update(table[id], data)
           key == IF "id" \in DOMAIN row THEN row.id ELSE id
       IN [k \in (DOMAIN table \ {id}) \cup {key} |->
             IF k = key THEN row ELSE table[k]]
  ELSE table

SQLAlchemyRepository_delete(table, id) ==
  [k \in DOMAIN table \ {id} |-> table[k]]

\* get_by_attribute('email', value): the id of the first match, or None
get_by_attribute(table, field, value) ==
  IF \E k \in DOMAIN table : table[k][field] = value
  THEN CHOOSE k \in DOMAIN table : table[k][field] = value
  ELSE None

\* User.places / User.reviews (cascade='all, delete-orphan') and
\* Place.reviews: the rows that go away with a user
user_places(u) == {p \in DOMAIN places : places[p].owner_id = u}

\* User.reviews without the cascade
cascade_reviews_of_places(u) ==
  {r \in DOMAIN reviews : reviews[r].place_id \in user_places(u)}

cascade_reviews(u) ==
  {r \in DOMAIN reviews :
     reviews[r].user_id = u \/ reviews[r].place_id \in user_places(u)}

(* ---------------------------------------------------------------------- *)
(* Facade.                                                                 *)
(* ---------------------------------------------------------------------- *)
get_user(user_id) == SQLAlchemyRepository_get(users, user_id)

get_user_by_email(email) == get_by_attribute(users, "email", email)

get_place(place_id) == SQLAlchemyRepository_get(places, place_id)

get_review(review_id) == SQLAlchemyRepository_get(reviews, review_id)

get_amenity(amenity_id) == SQLAlchemyRepository_get(amenities, amenity_id)

create_user(user_data) ==
  SQLAlchemyRepository_add(users, nextUser, User(user_data))

update_user(user_id, user_data) ==
  SQLAlchemyRepository_update(users, user_id, user_data)

\* builds the review without looking its user and place up
create_review_unchecked(review_data) == Review_valid(review_data)

\* a review is built only for an existing user and place, and only if the
\* constructor's validation passes
create_review_ok(review_data) ==
  /\ get_user(review_data.user_id)
  /\ get_place(review_data.place_id)
  /\ Review_valid(review_data)

create_review(review_data) ==
  SQLAlchemyRepository_add(reviews, nextReview, Review(review_data))

update_review(review_id, review_data) ==
  SQLAlchemyRepository_update(reviews, review_id, review_data)

delete_review(review_id) == SQLAlchemyRepository_delete(reviews, review_id)

create_amenity(amenity_data) ==
  SQLAlchemyRepository_add(amenities, nextAmenity, Amenity(amenity_data))

update_amenity(amenity_id, amenity_data) ==
  SQLAlchemyRepository_update(amenities, amenity_id, amenity_data)

create_place(place_data, owner_id) ==
  SQLAlchemyRepository_add(places, nextPlace, Place(place_data, owner_id))

update_place(place_id, place_data) ==
  SQLAlchemyRepository_update(places, place_id, place_data)

(* ---------------------------------------------------------------------- *)
(* Responses.                                                              *)
(* ---------------------------------------------------------------------- *)
\* the handler's return value: (body or error message, status code)
Respond(op, caller, code, msg) ==
  /\ request' = [op |-> op, caller |-> caller]
  /\ status' = code
  /\ message' = msg
  /\ UNCHANGED units

Reject(op, caller, code, msg) ==
  /\ Respond(op, caller, code, msg)
  /\ UNCHANGED <<store, counters, tokens>>

\* flask-restx answers a payload that fails the model's validation
BadPayload(op, caller) ==
  Reject(op, caller, 400, "Input payload validation failed")

\* flask-jwt-extended answers a request without a valid token
Unauthenticated(op, caller) ==
  Reject(op, caller, 401, "Missing Authorization Header")

\* an exception no handler catches
ServerError(op, caller) == Reject(op, caller, 500, "Internal Server Error")

(* ---------------------------------------------------------------------- *)
(* Authorization predicates of the handlers.                               *)
(* ---------------------------------------------------------------------- *)
\* looks the e-mail up under the wrong attribute
email_registered_wrong_attribute(email) ==
  get_by_attribute(users, "first_name", email) # None

\* UserList.post: existing_user = facade.get_user_by_email(...)
email_registered(email) == get_user_by_email(email) # None

\* UserResource.put (admin branch): existing and existing.id != user_id
email_in_use(email, user_id) ==
  /\ get_user_by_email(email) # None
  /\ get_user_by_email(email) # user_id

\* UserResource.put: current_user_id != user_id
not_self(caller, user_id) == caller.sub # user_id

\* tests keys the payload never carries
touches_credentials_wrong_keys(user_data) ==
  "mail" \in DOMAIN user_data \/ "pwd" \in DOMAIN user_data

\* lets a body through when it carries the email along with the password
touches_password_only(user_data) ==
  "password" \in DOMAIN user_data /\ "email" \notin DOMAIN user_data

\* UserResource.put: 'email' in user_data or 'password' in user_data
touches_credentials(user_data) ==
  "email" \in DOMAIN user_data \/ "password" \in DOMAIN user_data

\* compares the caller with the authors of all stored reviews
not_author_of_any(caller, review_id) ==
  ~caller.is_admin /\ \E r \in DOMAIN reviews : reviews[r].user_id # caller.sub

\* ReviewResource.put / delete: not is_admin and review.user.id != current
not_author(caller, review_id) ==
  ~caller.is_admin /\ reviews[review_id].user_id # caller.sub

\* ReviewList.post: not is_admin and place.owner.id == current_user
own_place(caller, place_id) ==
  ~caller.is_admin /\ places[place_id].owner_id = caller.sub

\* ReviewList.post: not is_admin and the caller already reviewed the place
already_reviewed(caller, place_id) ==
  /\ ~caller.is_admin
  /\ \E r \in DOMAIN reviews :
       reviews[r].place_id = place_id /\ reviews[r].user_id = caller.sub

(* ---------------------------------------------------------------------- *)
(* Handlers.                                                               *)
(* ---------------------------------------------------------------------- *)
Login_post(creds) ==
  LET user == get_user_by_email(creds.email) IN
  IF ~validate_payload(login_model, creds)
  THEN BadPayload("Login_post", Anonymous)
  ELSE IF user = None \/ ~verify_password(users[user], creds.password)
  THEN Reject("Login_post", Anonymous, 401, "Invalid credentials")
  ELSE /\ tokens' = tokens \cup
                      {[sub |-> user, is_admin |-> users[user].is_admin]}
       /\ Cardinality(tokens') <= MaxTokens
       /\ Respond("Login_post", Anonymous, 200, "access_token")
       /\ UNCHANGED <<store, counters>>

UserList_post(caller, user_data) ==
  LET op == "UserList_post" IN
  IF ~validate_payload(user_model, user_data) THEN BadPayload(op, caller)
  ELSE IF ~jwt_required(caller) THEN Unauthenticated(op, caller)
  ELSE IF ~caller.is_admin
  THEN Reject(op, caller, 403, "Admin privileges required")
  ELSE IF email_registered(user_data.email)
  THEN Reject(op, caller, 400, "Email already registered")
  ELSE IF ~commit_ok(create_user(user_data), {"email"})
  THEN ServerError(op, caller)
  ELSE /\ nextUser <= MaxUsers
       /\ users' = create_user(user_data)
       /\ nextUser' = nextUser + 1
       /\ Respond(op, caller, 201, "user")
       /\ UNCHANGED <<places, reviews, amenities, nextPlace, nextReview,
                      nextAmenity, tokens>>

UserResource_put(caller, user_id, user_data) ==
  LET op == "UserResource_put" IN
  IF ~validate_payload(user_model, user_data) THEN BadPayload(op, caller)
  ELSE IF ~jwt_required(caller) THEN Unauthenticated(op, caller)
  ELSE IF ~get_user(user_id)
  THEN Reject(op, caller, 404, "User not found")
  ELSE IF caller.is_admin /\ "email" \in DOMAIN user_data
          /\ email_in_use(user_data.email, user_id)
  THEN Reject(op, caller, 400, "Email already in use")
  ELSE IF ~caller.is_admin /\ not_self(caller, user_id)
  THEN Reject(op, caller, 403, "Unauthorized action")
  ELSE IF ~caller.is_admin /\ touches_credentials(user_data)
  THEN Reject(op, caller, 400, "You cannot modify email or password")
  ELSE IF ~commit_ok(update_user(user_id, user_data), {"email"})
  THEN ServerError(op, caller)
  ELSE /\ users' = update_user(user_id, user_data)
       /\ Respond(op, caller, 200, "user")
       /\ UNCHANGED <<places, reviews, amenities, counters, tokens>>

\* keeps the author the body names
review_data_as_sent(payload, caller) == payload

\* ReviewList.post: review_data['user_id'] = current_user
force_user_id(payload, caller) == [payload EXCEPT !.user_id = caller.sub]

ReviewList_post(caller, payload) ==
  LET op == "ReviewList_post" IN
  IF ~validate_payload(review_model, payload) THEN BadPayload(op, caller)
  ELSE IF ~jwt_required(caller) THEN Unauthenticated(op, caller)
  ELSE
    LET review_data == force_user_id(payload, caller) IN
    IF ~get_place(review_data.place_id)
    THEN Reject(op, caller, 404, "Place not found")
    ELSE IF own_place(caller, review_data.place_id)
    THEN Reject(op, caller, 400, "You cannot review your own place")
    ELSE IF already_reviewed(caller, review_data.place_id)
    THEN Reject(op, caller, 400, "You have already reviewed this place")
    ELSE IF ~create_review_ok(review_data)
    THEN Reject(op, caller, 400, "User or Place not found")
    ELSE /\ nextReview <= MaxReviews
         /\ reviews' = create_review(review_data)
         /\ nextReview' = nextReview + 1
         /\ Respond(op, caller, 201, "review")
         /\ UNCHANGED <<users, places, amenities, nextUser, nextPlace,
                        nextAmenity, tokens>>

ReviewResource_put(caller, review_id, review_data) ==
  LET op == "ReviewResource_put" IN
  IF ~validate_payload(review_model, review_data) THEN BadPayload(op, caller)
  ELSE IF ~jwt_required(caller) THEN Unauthenticated(op, caller)
  ELSE IF ~get_review(review_id)
  THEN Reject(op, caller, 404, "Review not found")
  ELSE IF not_author(caller, review_id)
  THEN Reject(op, caller, 403, "Unauthorized action")
  ELSE /\ reviews' = update_review(review_id, review_data)
       /\ Respond(op, caller, 200, "Review updated successfully")
       /\ UNCHANGED <<users, places, amenities, counters, tokens>>

ReviewResource_delete(caller, review_id) ==
  LET op == "ReviewResource_delete" IN
  IF ~jwt_required(caller) THEN Unauthenticated(op, caller)
  ELSE IF ~get_review(review_id)
  THEN Reject(op, caller, 404, "Review not found")
  ELSE IF not_author(caller, review_id)
  THEN Reject(op, caller, 403, "Unauthorized action")
  ELSE /\ reviews' = delete_review(review_id)
       /\ Respond(op, caller, 200, "Review deleted successfully")
       /\ UNCHANGED <<users, places, amenities, counters, tokens>>

AmenityList_post(caller, amenity_data) ==
  LET op == "AmenityList_post" IN
  IF ~validate_payload(amenity_model, amenity_data)
  THEN BadPayload(op, caller)
  ELSE IF ~jwt_required(caller) THEN Unauthenticated(op, caller)
  ELSE IF ~caller.is_admin
  THEN Reject(op, caller, 403, "Admin privileges required")
  ELSE IF ~commit_ok(create_amenity(amenity_data), {"name"})
  THEN ServerError(op, caller)
  ELSE /\ nextAmenity <= MaxAmenities
       /\ amenities' = create_amenity(amenity_data)
       /\ nextAmenity' = nextAmenity + 1
       /\ Respond(op, caller, 201, "amenity")
       /\ UNCHANGED <<users, places, reviews, nextUser, nextPlace,
                      nextReview, tokens>>

AmenityResource_put(caller, amenity_id, amenity_data) ==
  LET op == "AmenityResource_put" IN
  IF ~validate_payload(amenity_model, amenity_data)
  THEN BadPayload(op, caller)
  ELSE IF ~jwt_required(caller) THEN Unauthenticated(op, caller)
  ELSE IF ~caller.is_admin
  THEN Reject(op, caller, 403, "Admin privileges required")
  ELSE IF ~get_amenity(amenity_id)
  THEN Reject(op, caller, 404, "Amenity not found")
  ELSE IF ~commit_ok(update_amenity(amenity_id, amenity_data), {"name"})
  THEN ServerError(op, caller)
  ELSE /\ amenities' = update_amenity(amenity_id, amenity_data)
       /\ Respond(op, caller, 200, "amenity")
       /\ UNCHANGED <<users, places, reviews, counters, tokens>>

\* POST /places/: any authenticated caller; the caller becomes the owner
PlaceList_post(caller, place_data) ==
  LET op == "PlaceList_post" IN
  IF ~validate_payload(place_model, place_data) THEN BadPayload(op, caller)
  ELSE IF ~jwt_required(caller) THEN Unauthenticated(op, caller)
  ELSE IF ~get_user(caller.sub)
  THEN Reject(op, caller, 400, "Invalid owner")
  ELSE /\ nextPlace <= MaxPlaces
       /\ places' = create_place(place_data, caller.sub)
       /\ nextPlace' = nextPlace + 1
       /\ Respond(op, caller, 201, "place")
       /\ UNCHANGED <<users, reviews, amenities, nextUser, nextReview,
                      nextAmenity, tokens>>

\* PUT /places/{id}: owner or admin
PlaceResource_put(caller, place_id, place_data) ==
  LET op == "PlaceResource_put" IN
  IF ~validate_payload(place_model, place_data) THEN BadPayload(op, caller)
  ELSE IF ~jwt_required(caller) THEN Unauthenticated(op, caller)
  ELSE IF ~get_place(place_id)
  THEN Reject(op, caller, 404, "Place not found")
  ELSE IF ~caller.is_admin /\ places[place_id].owner_id # caller.sub
  THEN Reject(op, caller, 403, "Unauthorized action")
  ELSE /\ places' = update_place(place_id, place_data)
       /\ Respond(op, caller, 200, "place")
       /\ UNCHANGED <<users, reviews, amenities, counters, tokens>>

\* a list endpoint's answer: the rows of the table, nothing stored changes
RespondList(op, caller, table) ==
  /\ request' = [op |-> op, caller |-> caller]
  /\ status' = 200
  /\ message' = "list"
  /\ returned' = [op |-> op, id |-> None, data |-> [none |-> TRUE],
                  again |-> FALSE, memory |-> [raised |-> "", value |-> {}],
                  database |-> [raised |-> "",
                                value |-> SQLAlchemyRepository_get_all(table)]]
  /\ UNCHANGED <<store, counters, tokens, storage, session, now, User_emails>>

\* GET /users/: no jwt_required
UserList_get(caller) == RespondList("UserList_get", caller, users)

\* GET /amenities/: no jwt_required
AmenityList_get(caller) == RespondList("AmenityList_get", caller, amenities)

\* GET /reviews/: behind jwt_required
ReviewList_get(caller) ==
  IF ~jwt_required(caller) THEN Unauthenticated("ReviewList_get", caller)
  ELSE RespondList("ReviewList_get", caller, reviews)

\* GET /places/: public
PlaceList_get(caller) == RespondList("PlaceList_get", caller, places)

\* facade.delete_user -> user_repo.delete(user_id): the ORM cascades to the
\* user's places and reviews (and to the reviews of those places)
delete_user(user_id) ==
  /\ get_user(user_id)
  /\ users' = SQLAlchemyRepository_delete(users, user_id)
  /\ places' = [p \in DOMAIN places \ user_places(user_id) |-> places[p]]
  /\ reviews' = [r \in DOMAIN reviews \ cascade_reviews(user_id) |->
                   reviews[r]]
  /\ Respond("delete_user", Anonymous, None, "")
  /\ UNCHANGED <<amenities, counters, tokens>>

(* ---------------------------------------------------------------------- *)
(* Specification.                                                          *)
(* ---------------------------------------------------------------------- *)
\* no call made yet
Nothing ==
  [op |-> "none", id |-> None, data |-> [none |-> TRUE], again |-> FALSE,
   memory |-> [raised |-> "", value |-> {}],
   database |-> [raised |-> "", value |-> {}]]

\* run.py seeds the administrator before the first request is served
admin_data ==
  [first_name |-> "Admin", last_name |-> "User", email |-> "e1",
   password |-> "pw1", is_admin |-> TRUE]

Init ==
  /\ users = [u \in {1} |-> User(admin_data)]
  /\ places = <<>>
  /\ reviews = <<>>
  /\ amenities = <<>>
  /\ nextUser = 2
  /\ nextPlace = 1
  /\ nextReview = 1
  /\ nextAmenity = 1
  /\ tokens = {}
  /\ request = [op |-> "none", caller |-> Anonymous]
  /\ status = None
  /\ message = ""
  /\ storage = <<>>
  /\ session = <<>>
  /\ now = 0
  /\ returned = Nothing
  /\ User_emails = {}

\* PUT bodies reference rows that exist (foreign keys users.id, places.id)
references_exist(review_data) ==
  /\ "user_id" \in DOMAIN review_data => get_user(review_data.user_id)
  /\ "place_id" \in DOMAIN review_data => get_place(review_data.place_id)

\* One request (or facade call) with its inputs drawn from the given sets.
Step(user_bodies, review_bodies, amenity_bodies, place_bodies) ==
  \/ \E creds \in LoginPayloads : Login_post(creds)
  \/ \E caller \in Callers, body \in user_bodies : UserList_post(caller, body)
  \/ \E caller \in Callers, id \in UserIds, body \in user_bodies :
       UserResource_put(caller, id, body)
  \/ \E caller \in Callers, body \in review_bodies :
       ReviewList_post(caller, body)
  \/ \E caller \in Callers, id \in ReviewIds, body \in review_bodies :
       references_exist(body) /\ ReviewResource_put(caller, id, body)
  \/ \E caller \in Callers, id \in ReviewIds :
       ReviewResource_delete(caller, id)
  \/ \E caller \in Callers, body \in amenity_bodies :
       AmenityList_post(caller, body)
  \/ \E caller \in Callers, id \in AmenityIds, body \in amenity_bodies :
       AmenityResource_put(caller, id, body)
  \/ \E caller \in Callers, body \in place_bodies :
       PlaceList_post(caller, body)
  \/ \E caller \in Callers, id \in PlaceIds, body \in place_bodies :
       PlaceResource_put(caller, id, body)
  \/ \E id \in UserIds : delete_user(id)

\* Every endpoint, few field values.
UserBodies == UserPayloads({"Bob"}, {"e2", "e3"}, {"pw1"}, {FALSE})

ReviewBodies == ReviewPayloads({"good"}, {1, 5})

AmenityBodies == AmenityPayloads({"wifi"})

PlaceBodies == PlacePayloads({"flat"})

Next == Step(UserBodies, ReviewBodies, AmenityBodies, PlaceBodies)

Spec == Init /\ [][Next]_vars

\* The user endpoints alone, with every field varying.
UserBodiesWide == UserPayloads({"Ann"}, Emails, Passwords, BOOLEAN)

NextUsers ==
  \/ \E creds \in LoginPayloads : Login_post(creds)
  \/ \E caller \in Callers, body \in UserBodiesWide :
       UserList_post(caller, body)
  \/ \E caller \in Callers, id \in UserIds, body \in UserBodiesWide :
       UserResource_put(caller, id, body)
  \/ \E id \in UserIds : delete_user(id)

SpecUsers == Init /\ [][NextUsers]_vars

\* The review endpoints and what they need, with text and rating varying.
ReviewBodiesWide == ReviewPayloads({"", "good"}, {0, 1, 5, 6})

UserBodiesNarrow == UserPayloads({"Bob"}, {"e2"}, {"pw1"}, {})

NextReviews ==
  \/ \E creds \in LoginPayloads : Login_post(creds)
  \/ \E caller \in Callers, body \in UserBodiesNarrow :
       UserList_post(caller, body)
  \/ \E caller \in Callers, body \in PlaceBodies :
       PlaceList_post(caller, body)
  \/ \E caller \in Callers, body \in ReviewBodiesWide :
       ReviewList_post(caller, body)
  \/ \E caller \in Callers, id \in ReviewIds, body \in ReviewBodiesWide :
       references_exist(body) /\ ReviewResource_put(caller, id, body)
  \/ \E caller \in Callers, id \in ReviewIds :
       ReviewResource_delete(caller, id)
  \/ \E id \in UserIds : delete_user(id)

SpecReviews == Init /\ [][NextReviews]_vars

\* The endpoints that decide on the caller and the target's owner or author.
NextDecisions ==
  \/ \E creds \in LoginPayloads : Login_post(creds)
  \/ \E caller \in Callers, body \in UserBodies : UserList_post(caller, body)
  \/ \E caller \in Callers, id \in UserIds, body \in UserBodies :
       UserResource_put(caller, id, body)
  \/ \E caller \in Callers, body \in PlaceBodies :
       PlaceList_post(caller, body)
  \/ \E caller \in Callers, body \in ReviewBodies :
       ReviewList_post(caller, body)
  \/ \E caller \in Callers, id \in ReviewIds, body \in ReviewBodies :
       references_exist(body) /\ ReviewResource_put(caller, id, body)
  \/ \E caller \in Callers, id \in ReviewIds :
       ReviewResource_delete(caller, id)

SpecDecisions == Init /\ [][NextDecisions]_vars

\* The list endpoints, and the requests that fill the tables they read.
NextLists ==
  \/ \E creds \in LoginPayloads : Login_post(creds)
  \/ \E caller \in Callers, body \in UserBodiesNarrow :
       UserList_post(caller, body)
  \/ \E caller \in Callers, body \in AmenityBodies :
       AmenityList_post(caller, body)
  \/ \E caller \in Callers, body \in PlaceBodies :
       PlaceList_post(caller, body)
  \/ \E caller \in Callers, body \in ReviewBodies :
       ReviewList_post(caller, body)
  \/ \E caller \in Callers : UserList_get(caller)
  \/ \E caller \in Callers : AmenityList_get(caller)
  \/ \E caller \in Callers : PlaceList_get(caller)
  \/ \E caller \in Callers : ReviewList_get(caller)

SpecLists == Init /\ [][NextLists]_vars

\* The amenity endpoints, with names that can collide.
AmenityBodiesWide == AmenityPayloads({"wifi", "pool"})

NextAmenities ==
  \/ \E creds \in LoginPayloads : Login_post(creds)
  \/ \E caller \in Callers, body \in UserBodiesNarrow :
       UserList_post(caller, body)
  \/ \E caller \in Callers, body \in AmenityBodiesWide :
       AmenityList_post(caller, body)
  \/ \E caller \in Callers, id \in AmenityIds, body \in AmenityBodiesWide :
       AmenityResource_put(caller, id, body)

SpecAmenities == Init /\ [][NextAmenities]_vars

(* ---------------------------------------------------------------------- *)
(* The two repositories, driven with the same calls.                       *)
(* ---------------------------------------------------------------------- *)
MaxClock == 1

\* a model object as the repositories see it: its key, a unique column, a
\* plain column and the timestamp BaseModel.save refreshes
Entities ==
  [id : UserIds, email : {"e1", "e2"}, first_name : {"Ann", "Bob"},
   updated_at : {now}]

FieldMaps == [first_name : {"Ann", "Bob"}] \cup [email : {"e1", "e2"}]

\* a call's result: the exception it raised ("" for none) and the objects
\* it returned (None and the empty list are the empty set)
Returns(raised, value) == [raised |-> raised, value |-> value]

InMemoryRepository_add(st, obj) ==
  [k \in DOMAIN st \cup {obj.id} |-> IF k = obj.id THEN obj ELSE st[k]]

InMemoryRepository_get(st, obj_id) ==
  IF obj_id \in DOMAIN st THEN {st[obj_id]} ELSE {}

InMemoryRepository_get_all(st) == {st[k] : k \in DOMAIN st}

InMemoryRepository_update(st, obj_id, data) ==
  IF InMemoryRepository_get(st, obj_id) # {}
  THEN [st EXCEPT ![obj_id] = BaseModel_update(@, data)]
  ELSE st

InMemoryRepository_delete(st, obj_id) ==
  IF obj_id \in DOMAIN st THEN [k \in DOMAIN st \ {obj_id} |-> st[k]] ELSE st

InMemoryRepository_get_by_attribute(st, attr_name, attr_value) ==
  LET found == {k \in DOMAIN st : st[k][attr_name] = attr_value} IN
  IF found = {} THEN {} ELSE {st[CHOOSE k \in found : TRUE]}

\* session.commit() of an INSERT: the primary key and the UNIQUE columns
IntegrityError_on_add(table, obj) ==
  \/ obj.id \in DOMAIN table
  \/ ~commit_ok(SQLAlchemyRepository_add(table, obj.id, obj), {"email"})

\* session.commit() of an UPDATE
IntegrityError_on_update(table, obj_id, data) ==
  \/ /\ obj_id \in DOMAIN table
     /\ "id" \in DOMAIN data
     /\ data.id # obj_id
     /\ data.id \in DOMAIN table
  \/ ~commit_ok(SQLAlchemyRepository_update(table, obj_id, data), {"email"})

Call(op, obj_id, data, memory, database) ==
  /\ returned' =
       [op |-> op, id |-> obj_id, data |-> data,
        again |-> (returned.op = op /\ returned.id = obj_id
                   /\ returned.data = data),
        memory |-> memory, database |-> database]
  /\ UNCHANGED <<http, now, User_emails>>

Repository_add(obj) ==
  /\ storage' = InMemoryRepository_add(storage, obj)
  /\ session' = IF IntegrityError_on_add(session, obj) THEN session
                ELSE SQLAlchemyRepository_add(session, obj.id, obj)
  /\ Call("add", obj.id, obj, Returns("", {}),
          Returns(IF IntegrityError_on_add(session, obj)
                  THEN "IntegrityError" ELSE "", {}))

Repository_get(obj_id) ==
  /\ UNCHANGED <<storage, session>>
  /\ Call("get", obj_id, [none |-> TRUE],
          Returns("", InMemoryRepository_get(storage, obj_id)),
          Returns("", IF SQLAlchemyRepository_get(session, obj_id)
                      THEN {session[obj_id]} ELSE {}))

Repository_get_all ==
  /\ UNCHANGED <<storage, session>>
  /\ Call("get_all", None, [none |-> TRUE],
          Returns("", InMemoryRepository_get_all(storage)),
          Returns("", SQLAlchemyRepository_get_all(session)))

Repository_get_by_attribute(attr_name, attr_value) ==
  /\ UNCHANGED <<storage, session>>
  /\ Call("get_by_attribute", None, [none |-> TRUE],
          Returns("", InMemoryRepository_get_by_attribute(
                        storage, attr_name, attr_value)),
          Returns("", IF get_by_attribute(session, attr_name, attr_value)
                         = None
                      THEN {}
                      ELSE {session[get_by_attribute(
                                      session, attr_name, attr_value)]}))

Repository_update(obj_id, data) ==
  /\ storage' = InMemoryRepository_update(storage, obj_id, data)
  /\ session' = IF IntegrityError_on_update(session, obj_id, data)
                THEN session
                ELSE SQLAlchemyRepository_update(session, obj_id, data)
  /\ Call("update", obj_id, data, Returns("", {}),
          Returns(IF IntegrityError_on_update(session, obj_id, data)
                  THEN "IntegrityError" ELSE "", {}))

Repository_delete(obj_id) ==
  /\ storage' = InMemoryRepository_delete(storage, obj_id)
  /\ session' = SQLAlchemyRepository_delete(session, obj_id)
  /\ Call("delete", obj_id, [none |-> TRUE], Returns("", {}),
          Returns("", {}))

\* time passes between two calls
Tick ==
  /\ now < MaxClock
  /\ now' = now + 1
  /\ UNCHANGED <<http, storage, session, returned, User_emails>>

NextRepositories ==
  \/ \E obj \in Entities : Repository_add(obj)
  \/ \E obj_id \in UserIds : Repository_get(obj_id)
  \/ Repository_get_all
  \/ \E attr_value \in {"e1", "e2"} :
       Repository_get_by_attribute("email", attr_value)
  \/ \E obj_id \in UserIds, data \in FieldMaps :
       Repository_update(obj_id, data)
  \/ \E obj_id \in UserIds : Repository_delete(obj_id)
  \/ Tick

SpecRepositories == Init /\ [][NextRepositories]_vars

\* The same calls with field maps that name the key.
IdMaps == [id : UserIds] \cup [first_name : {"Ann", "Bob"}]

NextKeys ==
  \/ \E obj \in Entities : Repository_add(obj)
  \/ \E obj_id \in UserIds : Repository_get(obj_id)
  \/ Repository_get_all
  \/ \E obj_id \in UserIds, data \in IdMaps :
       Repository_update(obj_id, data)
  \/ \E obj_id \in UserIds : Repository_delete(obj_id)

SpecKeys == Init /\ [][NextKeys]_vars

(* ---------------------------------------------------------------------- *)
(* Part 2: users built by the validating User class and kept in the        *)
(* facade's in-memory user_repo (storage); User.emails is User_emails.      *)
(* ---------------------------------------------------------------------- *)
\* Python values with their type; a str is the sequence of its characters
PyStr(chars) == [type |-> "str", value |-> chars]

PyBool(b) == [type |-> "bool", value |-> IF b THEN <<"T">> ELSE <<"F">>]

PyInt(digits) == [type |-> "int", value |-> digits]

isinstance(value, type) == value.type = type

\* passes silently unless len(value) > max_length
is_max_length(value, max_length) == Len(value) <= max_length

\* re.match(r"[^@]+@[^@]+\.[^@]+", value)
re_match_email(value) ==
  \E at \in 2..Len(value) :
    /\ value[at] = "@"
    /\ \A k \in 1..(at - 1) : value[k] # "@"
    /\ \E dot \in (at + 2)..(Len(value) - 1) :
         /\ value[dot] = "."
         /\ \A k \in (at + 1)..(dot - 1) : value[k] # "@"
         /\ value[dot + 1] # "@"

\* User(**user_data): the setters run in the order of __init__; the result
\* is the exception raised ("" for none), User.emails afterwards and the
\* object built
User_init(user_data, emails, id) ==
  LET is_admin == IF "is_admin" \in DOMAIN user_data
                  THEN user_data.is_admin ELSE PyBool(FALSE)
      Raise(kind, reserved) ==
        [raised |-> kind, emails |-> reserved, value |-> {}]
  IN
  IF ~isinstance(user_data.first_name, "str")
  THEN Raise("TypeError", emails)
  ELSE IF ~is_max_length(user_data.first_name.value, 50)
  THEN Raise("ValueError", emails)
  ELSE IF ~isinstance(user_data.last_name, "str")
  THEN Raise("TypeError", emails)
  ELSE IF ~is_max_length(user_data.last_name.value, 50)
  THEN Raise("ValueError", emails)
  ELSE IF ~isinstance(user_data.email, "str")
  THEN Raise("TypeError", emails)
  ELSE IF ~re_match_email(user_data.email.value)
  THEN Raise("ValueError", emails)
  ELSE IF user_data.email.value \in emails
  THEN Raise("ValueError", emails)
  ELSE IF ~isinstance(is_admin, "bool")
  THEN Raise("TypeError", emails \cup {user_data.email.value})
  ELSE [raised |-> "",
        emails |-> emails \cup {user_data.email.value},
        value  |-> {[id         |-> id,
                     first_name |-> user_data.first_name.value,
                     last_name  |-> user_data.last_name.value,
                     email      |-> user_data.email.value,
                     is_admin   |-> is_admin = PyBool(TRUE)]}]

HBnBFacade_create_user(user_data) ==
  /\ Cardinality(DOMAIN storage) < MaxUsers
  /\ LET made == User_init(user_data, User_emails,
                           Cardinality(DOMAIN storage) + 1)
     IN
     /\ User_emails' = made.emails
     /\ storage' = IF made.raised = ""
                   THEN InMemoryRepository_add(
                          storage, CHOOSE user \in made.value : TRUE)
                   ELSE storage
     /\ returned' = [op |-> "create_user", id |-> None, data |-> user_data,
                     again |-> FALSE,
                     memory |-> Returns(made.raised, made.value),
                     database |-> Returns("", {})]
  /\ UNCHANGED <<http, session, now>>

HBnBFacade_get_user_by_email(email) ==
  /\ returned' = [op |-> "get_user_by_email", id |-> None,
                  data |-> [email |-> email], again |-> FALSE,
                  memory |-> Returns("", InMemoryRepository_get_by_attribute(
                                           storage, "email", email)),
                  database |-> Returns("", {})]
  /\ UNCHANGED <<http, storage, session, now, User_emails>>

\* setattr(user, key, value) on a stored user: the property setter of key;
\* the result is the exception raised ("" for none), the user and
\* User.emails afterwards
User_setattr(user, emails, key, value) ==
  LET Raise(kind) == [raised |-> kind, user |-> user, emails |-> emails]
      Set(changed, reserved) ==
        [raised |-> "", user |-> changed, emails |-> reserved]
  IN
  CASE key = "first_name" ->
         IF ~isinstance(value, "str") THEN Raise("TypeError")
         ELSE IF ~is_max_length(value.value, 50) THEN Raise("ValueError")
         ELSE Set([user EXCEPT !.first_name = value.value], emails)
    [] key = "last_name" ->
         IF ~isinstance(value, "str") THEN Raise("TypeError")
         ELSE IF ~is_max_length(value.value, 50) THEN Raise("ValueError")
         ELSE Set([user EXCEPT !.last_name = value.value], emails)
    [] key = "email" ->
         IF ~isinstance(value, "str") THEN Raise("TypeError")
         ELSE IF ~re_match_email(value.value) THEN Raise("ValueError")
         ELSE IF user.email # value.value /\ value.value \in emails
         THEN Raise("ValueError")
         ELSE Set([user EXCEPT !.email = value.value],
                  (emails \ {user.email}) \cup {value.value})
    [] key = "is_admin" ->
         IF ~isinstance(value, "bool") THEN Raise("TypeError")
         ELSE Set([user EXCEPT !.is_admin = (value = PyBool(TRUE))], emails)

\* for key, value in user_data.items(): setattr(user, key, value), in the
\* order of the dict, up to the first setter that raises
RECURSIVE setattr_items(_, _, _)
setattr_items(user, emails, items) ==
  IF items = <<>>
  THEN [raised |-> "", user |-> user, emails |-> emails]
  ELSE LET done == User_setattr(user, emails, Head(items).key,
                                Head(items).value)
       IN IF done.raised # "" THEN done
          ELSE setattr_items(done.user, done.emails, Tail(items))

\* user_repo holds the very object the setters change, so what is stored
\* after the call is what the loop left; user_data is the dict as the
\* sequence of its items
HBnBFacade_update_user(user_id, user_data) ==
  /\ user_id \in DOMAIN storage
  /\ LET done == setattr_items(storage[user_id], User_emails, user_data) IN
     /\ storage' = [storage EXCEPT ![user_id] = done.user]
     /\ User_emails' = done.emails
     /\ returned' = [op |-> "update_user", id |-> user_id,
                     data |-> user_data, again |-> FALSE,
                     memory |-> Returns(done.raised, {done.user}),
                     database |-> Returns("", {})]
  /\ UNCHANGED <<http, session, now>>

GoodEmails ==
  {<<"a", "@", "b", ".", "c">>, <<"d", "@", "b", ".", "c">>}

UserData ==
  LET first_names == {PyStr(<<"A", "n", "n">>), PyStr([i \in 1..51 |-> "J"]),
                      PyInt(<<"7">>)}
      last_names  == {PyStr(<<"L", "e", "e">>)}
      emails      == {PyStr(e) : e \in GoodEmails}
                       \cup {PyStr(<<"a", "b", ".", "c">>)}
      admins      == {PyBool(TRUE), PyBool(FALSE), PyStr(<<"y", "e", "s">>)}
  IN
  [first_name : first_names, last_name : last_names, email : emails,
   is_admin : admins]
    \cup [first_name : first_names, last_name : last_names, email : emails]

UserItems ==
  [key : {"first_name"},
   value : {PyStr(<<"B", "o", "b">>), PyStr([i \in 1..51 |-> "J"])}]
    \cup [key : {"email"},
          value : {PyStr(e) : e \in GoodEmails}
                    \cup {PyStr(<<"a", "b", ".", "c">>)}]
    \cup [key : {"is_admin"},
          value : {PyBool(TRUE), PyStr(<<"y", "e", "s">>)}]

\* dicts of one or two items
UpdateData ==
  {<<a>> : a \in UserItems}
    \cup {<<ab[1], ab[2]>> :
            ab \in {c \in UserItems \X UserItems : c[1].key # c[2].key}}

NextPart2 ==
  \/ \E user_data \in UserData : HBnBFacade_create_user(user_data)
  \/ \E user_id \in UserIds, user_data \in UpdateData :
       HBnBFacade_update_user(user_id, user_data)
  \/ \E email \in GoodEmails : HBnBFacade_get_user_by_email(email)

SpecPart2 == Init /\ [][NextPart2]_vars

(* ---------------------------------------------------------------------- *)
(* Properties.                                                             *)
(* ---------------------------------------------------------------------- *)

\* C1: in every reachable state there is at most one stored Review for each
\* (user, place) pair.
C1_OneReviewPerUserPlace ==
  \A a, b \in DOMAIN reviews :
    a # b => ~(/\ reviews[a].user_id = reviews[b].user_id
               /\ reviews[a].place_id = reviews[b].place_id)

\* C2: in every reachable state no stored Review is authored by the owner
\* of the reviewed Place.
C2_NoSelfReview ==
  \A r \in DOMAIN reviews :
    reviews[r].place_id \in DOMAIN places
      => places[reviews[r].place_id].owner_id # reviews[r].user_id

\* C3: no two stored Users ever share an email, and a POST /users/ whose
\* email is already registered stores no user and is refused (400 for an
\* admin caller, who is the only one allowed to create users).
C3_UniqueEmails ==
  [][LET distinct(us) ==
           \A a, b \in DOMAIN us : a # b => us[a].email # us[b].email
     IN
     /\ distinct(users) /\ distinct(users')
     /\ request'.op = "UserList_post" =>
        \A caller \in {request'.caller}, body \in UserBodiesWide :
          (/\ validate_payload(user_model, body)
           /\ \E u \in DOMAIN users : users[u].email = body.email
           /\ UserList_post(caller, body))
          => /\ users' = users
             /\ status' # 201
             /\ (caller.auth /\ caller.is_admin => status' = 400)]_vars

C3_Witness ==
  /\ request.op = "UserList_post"
  /\ status = 400
  /\ message = "Email already registered"

\* C4: every stored Review has a rating in 1..5 in every reachable state.
C4_RatingInRange ==
  \A r \in DOMAIN reviews : reviews[r].rating \in 1..5

\* C5: deleting a User leaves no Place owned by that user and no Review
\* authored by that user in the repositories, and the user itself is gone.
C5_CascadeOnUserDelete ==
  [][\A u \in UserIds :
       delete_user(u)
       => /\ u \notin DOMAIN users'
          /\ \A p \in DOMAIN places' : places'[p].owner_id # u
          /\ \A r \in DOMAIN reviews' : reviews'[r].user_id # u]_vars

C5_Witness ==
  /\ request.op = "delete_user"
  /\ \E p \in PlaceIds : p < nextPlace /\ p \notin DOMAIN places
  /\ \E r \in ReviewIds : r < nextReview /\ r \notin DOMAIN reviews

\* C6: a POST, PUT or DELETE on users, places, reviews or amenities made
\* without a token is answered 401, whatever else holds of the request, and
\* changes no stored entity.
C6_AnonymousRejected ==
  [][LET Unauthenticated401 ==
           /\ status' = 401
           /\ UNCHANGED <<store, counters, tokens>>
     IN
     request'.caller = Anonymous =>
       /\ \A b \in UserBodies :
            UserList_post(Anonymous, b) => Unauthenticated401
       /\ \A id \in UserIds, b \in UserBodies :
            UserResource_put(Anonymous, id, b) => Unauthenticated401
       /\ \A b \in ReviewBodies :
            ReviewList_post(Anonymous, b) => Unauthenticated401
       /\ \A id \in ReviewIds, b \in ReviewBodies :
            ReviewResource_put(Anonymous, id, b) => Unauthenticated401
       /\ \A id \in ReviewIds :
            ReviewResource_delete(Anonymous, id) => Unauthenticated401
       /\ \A b \in AmenityBodies :
            AmenityList_post(Anonymous, b) => Unauthenticated401
       /\ \A id \in AmenityIds, b \in AmenityBodies :
            AmenityResource_put(Anonymous, id, b) => Unauthenticated401
       /\ \A b \in PlaceBodies :
            PlaceList_post(Anonymous, b) => Unauthenticated401
       /\ \A id \in PlaceIds, b \in PlaceBodies :
            PlaceResource_put(Anonymous, id, b) => Unauthenticated401]_vars

\* C7: a PUT on an existing user, or a PUT or DELETE on an existing review,
\* by an authenticated caller who is neither admin nor the target user / the
\* review's author is answered 403 and changes nothing.
C7_ForeignCallerForbidden ==
  [][LET Forbidden ==
           /\ status' = 403
           /\ UNCHANGED <<store, counters, tokens>>
     IN
     \A caller \in Callers :
       request'.caller = caller /\ caller.auth /\ ~caller.is_admin =>
         /\ \A id \in DOMAIN users, b \in UserBodies :
              (/\ caller.sub # id
               /\ UserResource_put(caller, id, b)) => Forbidden
         /\ \A id \in DOMAIN reviews, b \in ReviewBodies :
              (/\ reviews[id].user_id # caller.sub
               /\ ReviewResource_put(caller, id, b)) => Forbidden
         /\ \A id \in DOMAIN reviews :
              (/\ reviews[id].user_id # caller.sub
               /\ ReviewResource_delete(caller, id)) => Forbidden]_vars

\* C8: a PUT /users/{id} by a non-admin caller on their own, existing id
\* whose body carries email or password is answered 400 and leaves the users
\* unchanged; and no request of a non-admin caller adds or removes a user or
\* changes the email or the password hash of a stored user.
C8_NonAdminCannotChangeEmail ==
  [][LET RequestBy(caller) ==
           \/ \E b \in UserBodies : UserList_post(caller, b)
           \/ \E id \in UserIds, b \in UserBodies :
                UserResource_put(caller, id, b)
           \/ \E b \in ReviewBodies : ReviewList_post(caller, b)
           \/ \E id \in ReviewIds, b \in ReviewBodies :
                ReviewResource_put(caller, id, b)
           \/ \E id \in ReviewIds : ReviewResource_delete(caller, id)
           \/ \E b \in AmenityBodies : AmenityList_post(caller, b)
           \/ \E id \in AmenityIds, b \in AmenityBodies :
                AmenityResource_put(caller, id, b)
           \/ \E b \in PlaceBodies : PlaceList_post(caller, b)
           \/ \E id \in PlaceIds, b \in PlaceBodies :
                PlaceResource_put(caller, id, b)
           \/ (~caller.auth /\ \E creds \in LoginPayloads : Login_post(creds))
         CredentialsKept ==
           /\ DOMAIN users' = DOMAIN users
           /\ \A u \in DOMAIN users :
                /\ users'[u].email = users[u].email
                /\ users'[u].password_hash = users[u].password_hash
     IN
     \A caller \in Callers :
       request'.caller = caller /\ ~caller.is_admin =>
         /\ \A b \in UserBodies :
              (/\ caller.auth
               /\ caller.sub \in DOMAIN users
               /\ ("email" \in DOMAIN b \/ "password" \in DOMAIN b)
               /\ UserResource_put(caller, caller.sub, b))
              => (status' = 400 /\ users' = users)
         /\ ~CredentialsKept => ~RequestBy(caller)]_vars

C8_Witness ==
  /\ request.op = "UserResource_put"
  /\ status = 400
  /\ message = "You cannot modify email or password"

\* C9: a PUT /users/{id} by an admin caller on an existing user with an
\* email field in its body is answered 200 and sets the user's email to the
\* body's, unless another user has that email: then it is answered 400 and
\* the target user is unchanged.
C9_AdminChangesEmail ==
  [][request'.op = "UserResource_put" =>
     \A caller \in {request'.caller}, id \in DOMAIN users,
        b \in UserBodiesWide :
       (/\ caller.auth /\ caller.is_admin
        /\ "email" \in DOMAIN b
        /\ UserResource_put(caller, id, b))
       => IF \E u \in DOMAIN users \ {id} : users[u].email = b.email
          THEN status' = 400 /\ users'[id] = users[id]
          ELSE status' = 200 /\ users'[id].email = b.email]_vars

\* C10: a caller with the admin claim updates any existing user (the email
\* not colliding) and updates or deletes any existing review, whoever owns
\* or wrote it: the answer is 200 and the fields of the body are stored.
C10_AdminBypassesOwnership ==
  [][\A caller \in Callers :
       request'.caller = caller /\ caller.auth /\ caller.is_admin =>
         /\ \A id \in DOMAIN users, b \in UserBodies :
              (/\ "email" \in DOMAIN b =>
                    ~\E u \in DOMAIN users \ {id} : users[u].email = b.email
               /\ UserResource_put(caller, id, b))
              => /\ status' = 200
                 /\ \A k \in DOMAIN b \cap DOMAIN users[id] :
                      users'[id][k] = b[k]
                 /\ "password" \in DOMAIN b
                      => check_password(users'[id], b.password)
         /\ \A id \in DOMAIN reviews, b \in ReviewBodies :
              ReviewResource_put(caller, id, b)
              => /\ status' = 200
                 /\ reviews'[id].text = b.text
                 /\ reviews'[id].rating = b.rating
         /\ \A id \in DOMAIN reviews :
              ReviewResource_delete(caller, id)
              => /\ status' = 200
                 /\ id \notin DOMAIN reviews']_vars

\* C11: POST /users/, POST /amenities/ and PUT /amenities/{id} answer 200 or
\* 201 only to a caller with the admin claim; an authenticated caller
\* without it is always answered 403 and nothing is created or changed.
C11_AdminOnlyEndpoints ==
  [][LET AdminOnly(caller) ==
           /\ status' \in {200, 201} => caller.is_admin
           /\ (caller.auth /\ ~caller.is_admin) =>
                /\ status' = 403
                /\ UNCHANGED <<store, counters, tokens>>
     IN
     \A caller \in Callers :
       request'.caller = caller =>
         /\ \A b \in UserBodies :
              UserList_post(caller, b) => AdminOnly(caller)
         /\ \A b \in AmenityBodies :
              AmenityList_post(caller, b) => AdminOnly(caller)
         /\ \A id \in AmenityIds, b \in AmenityBodies :
              AmenityResource_put(caller, id, b) => AdminOnly(caller)]_vars

\* C12: a PUT /users/{id} by the authenticated non-admin user with that id
\* whose body holds only first_name and/or last_name is answered 200 and the
\* stored user carries the body's names afterwards.
C12_SelfUpdateOfNames ==
  [][\A caller \in Callers :
       request'.caller = caller /\ caller.auth /\ ~caller.is_admin =>
         \A b \in UserBodies :
           (/\ caller.sub \in DOMAIN users
            /\ DOMAIN b \subseteq {"first_name", "last_name"}
            /\ UserResource_put(caller, caller.sub, b))
           => /\ status' = 200
              /\ \A k \in DOMAIN b : users'[caller.sub][k] = b[k]]_vars

\* C13: a POST /auth/login with an email and a password is answered 200 and
\* issues the token [subject = the user's id, admin claim = the user's
\* stored is_admin] if a user has that email and the password verifies
\* against that user's hash; otherwise it is answered 401 and no token is
\* issued.  The store never changes.
C13_LoginIffCredentials ==
  [][request'.op = "Login_post" =>
     \A creds \in LoginPayloads :
       (validate_payload(login_model, creds) /\ Login_post(creds))
       => /\ UNCHANGED <<store, counters>>
          /\ IF \E u \in DOMAIN users :
                  /\ users[u].email = creds.email
                  /\ users[u].password_hash = <<"bcrypt", creds.password>>
             THEN /\ status' = 200
                  /\ \E u \in DOMAIN users :
                       /\ users[u].email = creds.email
                       /\ tokens' = tokens \cup
                            {[sub |-> u, is_admin |-> users[u].is_admin]}
             ELSE /\ status' = 401
                  /\ tokens' = tokens]_vars

C13_Witness ==
  /\ request.op = "Login_post"
  /\ status = 200
  /\ \E t \in tokens :
       /\ t.sub \in DOMAIN users
       /\ ~t.is_admin
       /\ ~users[t.sub].is_admin

\* C14: whether a request is treated as an admin's is decided by the
\* is_admin claim of its token as issued at login, whatever the users table
\* holds for the token's subject by then (changed flag, deleted user): every
\* admin check of every handler comes out by the claim.
C14_AdminStatusFromToken ==
  [][\A t \in tokens :
       request'.caller = Bearer(t) =>
         LET caller == Bearer(t)
             op == request'.op
             ByClaim == (status' = 403) <=> ~t.is_admin
         IN
         /\ op = "UserList_post" =>
              \A b \in UserBodies :
                (validate_payload(user_model, b) /\ UserList_post(caller, b))
                => ByClaim
         /\ op = "AmenityList_post" =>
              \A b \in AmenityBodies :
                (/\ validate_payload(amenity_model, b)
                 /\ AmenityList_post(caller, b)) => ByClaim
         /\ op = "AmenityResource_put" =>
              \A id \in AmenityIds, b \in AmenityBodies :
                (/\ validate_payload(amenity_model, b)
                 /\ AmenityResource_put(caller, id, b)) => ByClaim
         /\ op = "UserResource_put" =>
              \A id \in DOMAIN users, b \in UserBodies :
                (/\ id # t.sub
                 /\ validate_payload(user_model, b)
                 /\ UserResource_put(caller, id, b)) => ByClaim
         /\ op = "ReviewResource_put" =>
              \A id \in DOMAIN reviews, b \in ReviewBodies :
                (/\ reviews[id].user_id # t.sub
                 /\ validate_payload(review_model, b)
                 /\ ReviewResource_put(caller, id, b)) => ByClaim
         /\ op = "ReviewResource_delete" =>
              \A id \in DOMAIN reviews :
                (/\ reviews[id].user_id # t.sub
                 /\ ReviewResource_delete(caller, id)) => ByClaim
         /\ op = "ReviewList_post" =>
              \A b \in ReviewBodies :
                (/\ validate_payload(review_model, b)
                 /\ b.place_id \in DOMAIN places
                 /\ places[b.place_id].owner_id = t.sub
                 /\ ReviewList_post(caller, b))
                => ((message' = "You cannot review your own place")
                      <=> ~t.is_admin)]_vars

C14_Witness ==
  /\ request.op \in {"AmenityList_post", "AmenityResource_put",
                     "UserList_post"}
  /\ status \in {200, 201}
  /\ request.caller.is_admin
  /\ \/ request.caller.sub \notin DOMAIN users
     \/ ~users[request.caller.sub].is_admin

\* C15: add(entity) raises a duplicate-key error and leaves the stored
\* entities unchanged whenever an entity with the same id, or with the same
\* value of the unique field, is already stored; in both repositories.
C15_AddRejectsDuplicates ==
  [][returned'.op = "add" =>
     \A obj \in Entities :
       Repository_add(obj) =>
         /\ (\E k \in DOMAIN storage :
               k = obj.id \/ storage[k].email = obj.email)
            => (returned'.memory.raised # "" /\ storage' = storage)
         /\ (\E k \in DOMAIN session :
               k = obj.id \/ session[k].email = obj.email)
            => (returned'.database.raised # "" /\ session' = session)]_vars

\* C16: after any sequence of calls the two repositories have returned or
\* raised the same thing on the last call and hold the same entities.
C16_RepositoriesAgree ==
  /\ returned.memory = returned.database
  /\ storage = session

\* C17: get, update and delete with an id that is not stored do not raise
\* and leave the repository as it was, and get returns None; in both
\* repositories.
C17_MissingIdIsNoOp ==
  [][returned'.op \in {"get", "update", "delete"} =>
     \A obj_id \in UserIds :
       LET Quiet(table, table_after, result) ==
             obj_id \notin DOMAIN table =>
               (result = Returns("", {}) /\ table_after = table)
           Both == /\ Quiet(storage, storage', returned'.memory)
                   /\ Quiet(session, session', returned'.database)
       IN
       /\ Repository_get(obj_id) => Both
       /\ \A data \in FieldMaps : Repository_update(obj_id, data) => Both
       /\ Repository_delete(obj_id) => Both]_vars

C17_Witness ==
  /\ returned.op = "update"
  /\ returned.id \notin DOMAIN storage
  /\ returned.id \notin DOMAIN session
  /\ storage # <<>>
  /\ session # <<>>

\* C18: an added entity is what get(id) returns and is in get_all() from the
\* add on, in every later state, until delete(id) is called; after the
\* delete it is in neither.  In both repositories.
C18_StoredUntilDeleted ==
  [][LET Kept(table, table_after) ==
           \A k \in DOMAIN table :
             /\ k \notin DOMAIN table_after
                  => (returned'.op = "delete" /\ returned'.id = k)
             /\ (k \in DOMAIN table_after /\ table_after[k] # table[k])
                  => (returned'.op = "update" /\ returned'.id = k)
     IN
     /\ Kept(storage, storage')
     /\ Kept(session, session')
     /\ \A obj \in Entities :
          (returned'.op = "add" /\ Repository_add(obj)) =>
            /\ returned'.memory.raised = ""
                 => /\ InMemoryRepository_get(storage', obj.id) = {obj}
                    /\ obj \in InMemoryRepository_get_all(storage')
            /\ returned'.database.raised = ""
                 => /\ SQLAlchemyRepository_get(session', obj.id)
                    /\ session'[obj.id] = obj
                    /\ obj \in SQLAlchemyRepository_get_all(session')
     /\ \A obj_id \in UserIds :
          (returned'.op = "delete" /\ Repository_delete(obj_id)) =>
            /\ InMemoryRepository_get(storage', obj_id) = {}
            /\ ~SQLAlchemyRepository_get(session', obj_id)
            /\ \A e \in InMemoryRepository_get_all(storage')
                        \cup SQLAlchemyRepository_get_all(session') :
                 e.id # obj_id]_vars

\* C19 as claimed: the same update(id, fields), or the same delete(id),
\* called a second time leaves both repositories exactly as the first call
\* left them.
C19_SecondCallChangesNothing ==
  [][returned'.op \in {"update", "delete"} /\ returned'.again =>
     /\ \A obj_id \in UserIds, data \in FieldMaps :
          Repository_update(obj_id, data)
            => (storage' = storage /\ session' = session)
     /\ \A obj_id \in UserIds :
          Repository_delete(obj_id)
            => (storage' = storage /\ session' = session)]_vars

\* C19 as amended: a repeated delete(id) changes nothing; a repeated
\* update(id, fields) changes no field of any stored entity other than the
\* updated entity's updated_at, which becomes the time of the repeated call.
C19_IdempotentButForTimestamp ==
  [][returned'.op \in {"update", "delete"} /\ returned'.again =>
     LET Same(table, table_after, obj_id) ==
           /\ DOMAIN table_after = DOMAIN table
           /\ \A k \in DOMAIN table :
                /\ \A f \in DOMAIN table[k] \ {"updated_at"} :
                     table_after[k][f] = table[k][f]
                /\ k # obj_id
                     => table_after[k].updated_at = table[k].updated_at
         Stamped(table_after, obj_id, raised) ==
           (obj_id \in DOMAIN table_after /\ raised = "")
             => table_after[obj_id].updated_at = now
     IN
     /\ \A obj_id \in UserIds, data \in FieldMaps :
          Repository_update(obj_id, data)
            => /\ Same(storage, storage', obj_id)
               /\ Same(session, session', obj_id)
               /\ Stamped(storage', obj_id, returned'.memory.raised)
               /\ Stamped(session', obj_id, returned'.database.raised)
     /\ \A obj_id \in UserIds :
          Repository_delete(obj_id)
            => (storage' = storage /\ session' = session)]_vars

C19_Witness ==
  /\ returned.op = "update"
  /\ returned.again
  /\ now > 0
  /\ returned.id \in DOMAIN storage
  /\ returned.id \in DOMAIN session
  /\ storage[returned.id].updated_at = now
  /\ session[returned.id].updated_at = now

\* C20: a create whose entity construction raises adds nothing to the
\* repository and changes no other state, the reserved emails included; so
\* a create with valid fields whose email no stored user has succeeds.
C20_FailedCreateLeavesNoTrace ==
  [][returned'.op = "create_user" =>
     \A user_data \in {returned'.data} :
       HBnBFacade_create_user(user_data) =>
         /\ returned'.memory.raised # ""
              => (storage' = storage /\ User_emails' = User_emails)
         /\ ( /\ User_init(user_data, {}, None).raised = ""
              /\ \A k \in DOMAIN storage :
                   storage[k].email # user_data.email.value )
              => returned'.memory.raised = ""]_vars

C22_IdIsStableKey ==
  [][/\ \A a, b \in DOMAIN storage' :
          a # b => storage'[a].id # storage'[b].id
     /\ \A a, b \in DOMAIN session' :
          a # b => session'[a].id # session'[b].id
     /\ returned'.op = "update" =>
          \A obj_id \in UserIds, data \in IdMaps :
            Repository_update(obj_id, data) =>
              /\ \A k \in DOMAIN storage : storage'[k].id = storage[k].id
              /\ {session'[k].id : k \in DOMAIN session'}
                   = {session[k].id : k \in DOMAIN session}]_vars

\* C23: in every reachable state no two stored amenities have the same name.
C23_UniqueAmenityNames ==
  \A a, b \in DOMAIN amenities :
    a # b => amenities[a].name # amenities[b].name

C23_Witness ==
  /\ Cardinality(DOMAIN amenities) = 2
  /\ request.op \in {"AmenityList_post", "AmenityResource_put"}
  /\ request.caller.is_admin
  /\ status = 500

C25_PublicLists ==
  [][request'.caller = Anonymous =>
     LET Listed(table) ==
           /\ status' = 200
           /\ returned'.database.value = {table[k] : k \in DOMAIN table}
           /\ UNCHANGED <<store, counters, tokens>>
     IN
     /\ UserList_get(Anonymous) => Listed(users)
     /\ AmenityList_get(Anonymous) => Listed(amenities)
     /\ PlaceList_get(Anonymous) => Listed(places)
     /\ ReviewList_get(Anonymous) => Listed(reviews)]_vars

\* C26: no request made without an admin token turns a stored user's
\* is_admin flag from false to true (or stores a new user).
C26_NoSelfPromotion ==
  [][~request'.caller.is_admin =>
       /\ DOMAIN users' \subseteq DOMAIN users
       /\ \A u \in DOMAIN users' :
            users'[u].is_admin => users[u].is_admin]_vars

C26_Witness ==
  /\ request.op = "UserResource_put"
  /\ request.caller.auth
  /\ ~request.caller.is_admin
  /\ request.caller.sub \in DOMAIN users
  /\ ~users[request.caller.sub].is_admin
  /\ status = 400
  /\ message = "You cannot modify email or password"

\* C27: a stored review keeps its user_id and place_id for as long as it is
\* stored: no request, PUT /reviews/{id} with any body included, changes
\* them.
C27_ReviewKeepsAuthorAndPlace ==
  [][\A r \in DOMAIN reviews \cap DOMAIN reviews' :
       /\ reviews'[r].user_id = reviews[r].user_id
       /\ reviews'[r].place_id = reviews[r].place_id]_vars

\* C28: every review stored by POST /reviews/ has the caller, the subject
\* of the request's token, as its author, whatever user_id the body names
\* and whether or not the caller is an admin.
C28_AuthorIsCaller ==
  [][request'.op = "ReviewList_post" =>
       \A r \in DOMAIN reviews' \ DOMAIN reviews :
         /\ request'.caller.auth
         /\ reviews'[r].user_id = request'.caller.sub]_vars

C28_Witness ==
  /\ request.op = "ReviewList_post"
  /\ status = 201
  /\ request.caller.is_admin
  /\ \E u \in DOMAIN users : u # request.caller.sub
  /\ \E r \in DOMAIN reviews : reviews[r].user_id = request.caller.sub

\* C29: an update in which a field fails validation leaves every field of
\* the stored entity, and the reserved emails, as they were before the
\* call: the fields that precede the failing one are not merged.
C29_UpdateIsAtomic ==
  [][returned'.op = "update_user" =>
     \A user_id \in {returned'.id}, user_data \in {returned'.data} :
       (HBnBFacade_update_user(user_id, user_data)
          /\ returned'.memory.raised # "")
         => (storage' = storage /\ User_emails' = User_emails)]_vars

\* C30: a caller with a non-admin token who targets an id that is not
\* stored is answered 404 by PUT /users/{id} and by PUT and DELETE
\* /reviews/{id} (existence is checked before ownership), and 403 by
\* PUT /amenities/{id} (the admin check comes before existence).
C30_OrderOfChecks ==
  [][\A t \in tokens :
       (request'.caller = Bearer(t) /\ ~t.is_admin) =>
         /\ request'.op = "UserResource_put" =>
              \A id \in UserIds, b \in UserBodies :
                (~get_user(id) /\ UserResource_put(Bearer(t), id, b))
                  => status' = 404
         /\ request'.op = "ReviewResource_put" =>
              \A id \in ReviewIds, b \in ReviewBodies :
                (~get_review(id) /\ ReviewResource_put(Bearer(t), id, b))
                  => status' = 404
         /\ request'.op = "ReviewResource_delete" =>
              \A id \in ReviewIds :
                (~get_review(id) /\ ReviewResource_delete(Bearer(t), id))
                  => status' = 404
         /\ request'.op = "AmenityResource_put" =>
              \A id \in AmenityIds, b \in AmenityBodies :
                (~get_amenity(id) /\ AmenityResource_put(Bearer(t), id, b))
                  => status' = 403]_vars

====
